---- MODULE Spec2Model ----
(***************************************************************************)
(* Link metadata acquisition pipeline of obsidian-auto-card-link:          *)
(* MetadataCache, MetadataFetcher, MetadataParser and the two metadata     *)
(* services (LinkMetadataService, MetadataService) built on them.          *)
(*                                                                         *)
(* Strings are sequences of tokens; a token stands for a run of characters *)
(* (a scheme, a host name, a blank, a line break, ...).  The empty string  *)
(* is the empty sequence.                                                  *)
(***************************************************************************)
EXTENDS Integers, Sequences, FiniteSets, TLC

(***************************************************************************)
(* Bounds of the model.                                                    *)
(***************************************************************************)
MaxTime == 2
MaxTTL == 1
MaxCapacity == 2

(***************************************************************************)
(* Strings.                                                                *)
(***************************************************************************)
\* the JavaScript value undefined, kept apart from every string
undefined == <<"<undefined>">>

\* the tokens String.prototype.trim strips: blanks, tabs and line breaks
Whitespace == {" ", "\t", "\n", "\r", "\r\n"}

\* String.prototype.toLowerCase, token by token
LowerToken(t) ==
    CASE t = "HTTPS://" -> "https://"
      [] t = "Example.com" -> "example.com"
      [] t = "/Page" -> "/page"
      [] OTHER -> t

toLowerCase(s) == [i \in 1..Len(s) |-> LowerToken(s[i])]

RECURSIVE trimStart(_)
trimStart(s) ==
    IF s = <<>> THEN <<>>
    ELSE IF Head(s) \in Whitespace THEN trimStart(Tail(s))
    ELSE s

RECURSIVE trimEnd(_)
trimEnd(s) ==
    IF s = <<>> THEN <<>>
    ELSE IF s[Len(s)] \in Whitespace THEN trimEnd(SubSeq(s, 1, Len(s) - 1))
    ELSE s

\* String.prototype.trim
trim(s) == trimEnd(trimStart(s))

(***************************************************************************)
(* LinkMetadata records (types/metadata.ts); an absent field holds         *)
(* undefined.                                                              *)
(***************************************************************************)
LinkMetadata(url, title, host, favicon, image) ==
    [url |-> url, title |-> title, description |-> undefined,
     siteName |-> undefined, host |-> host, favicon |-> favicon,
     image |-> image, localImage |-> undefined, indent |-> 0]

\* the value undefined where a LinkMetadata is expected
undefinedMetadata ==
    LinkMetadata(undefined, undefined, undefined, undefined, undefined)

(***************************************************************************)
(* MetadataCache (core/link-metadata/cache.ts).  The Map is a sequence of  *)
(* entries in insertion order; an entry is a key with its CacheItem.       *)
(***************************************************************************)
getCacheKey(url) == toLowerCase(trim(url))

\* Map.prototype.has / index of a key in the Map (0 when absent)
IndexOfKey(store, key) ==
    IF \E i \in 1..Len(store) : store[i].key = key
    THEN CHOOSE i \in 1..Len(store) : store[i].key = key
    ELSE 0

\* Map.prototype.delete
MapDelete(store, key) ==
    LET i == IndexOfKey(store, key) IN
    IF i = 0 THEN store
    ELSE SubSeq(store, 1, i - 1) \o SubSeq(store, i + 1, Len(store))

\* Map.prototype.set: an existing key keeps its position, a new key goes last
MapSet(store, key, item) ==
    LET i == IndexOfKey(store, key)
        e == [key |-> key, data |-> item.data,
              timestamp |-> item.timestamp, expiry |-> item.expiry] IN
    IF i = 0 THEN Append(store, e)
    ELSE [store EXCEPT ![i] = e]

\* a key is falsy in JavaScript exactly when it is the empty string
Truthy(s) == s # <<>> /\ s # undefined

\* the scan of evictOldest: the first entry whose timestamp is below every
\* timestamp before it and not above any timestamp after it
OldestIndexStrict(store) ==
    CHOOSE i \in 1..Len(store) :
        /\ \A j \in 1..Len(store) : store[i].timestamp <= store[j].timestamp
        /\ \A j \in 1..(i - 1) : store[j].timestamp > store[i].timestamp

\* the eviction that removes the first-inserted entry, whatever its age
evictFirstInserted(store) ==
    IF store = <<>> THEN store ELSE MapDelete(store, store[1].key)

evictOldest(store) ==
    IF store = <<>> THEN store
    ELSE LET oldestKey == store[OldestIndexStrict(store)].key IN
         IF Truthy(oldestKey) THEN MapDelete(store, oldestKey) ELSE store

\* MetadataCache.set: the store after set(url, metadata) at clock reading t
setStore(store, url, metadata, t, ttl, maxItems) ==
    LET cacheKey == getCacheKey(url)
        item == [data |-> metadata, timestamp |-> t, expiry |-> t + ttl]
        s1 == MapSet(store, cacheKey, item) IN
    IF Len(s1) > maxItems THEN evictOldest(s1) ELSE s1

\* get that does not look at the expiry
getValueNoExpiry(store, url, t) ==
    LET i == IndexOfKey(store, getCacheKey(url)) IN
    IF i # 0 THEN store[i].data ELSE undefinedMetadata

\* MetadataCache.get: the value returned at clock reading t
getValue(store, url, t) ==
    LET i == IndexOfKey(store, getCacheKey(url)) IN
    IF i # 0 /\ t < store[i].expiry THEN store[i].data ELSE undefinedMetadata

\* the get that sweeps every expired entry out of the store
getStoreSweeping(store, url, t) ==
    SelectSeq(store, LAMBDA item : t < item.expiry)

\* MetadataCache.get: the store it leaves (an expired entry is deleted)
getStore(store, url, t) ==
    LET cacheKey == getCacheKey(url)
        i == IndexOfKey(store, cacheKey) IN
    IF i # 0 /\ t < store[i].expiry THEN store
    ELSE IF i # 0 THEN MapDelete(store, cacheKey)
    ELSE store

\* MetadataCache.delete
deleteStore(store, url) == MapDelete(store, getCacheKey(url))

\* MetadataCache.clear
clearStore(store) == <<>>

\* MetadataCache.getStats
getStats(store) ==
    [size |-> Len(store), keys |-> [i \in 1..Len(store) |-> store[i].key]]

(***************************************************************************)
(* HTML documents: what the selectors of the parse strategies find in      *)
(* them.  A field holds the attribute value or text content found, or      *)
(* undefined when the element or the attribute is missing.                  *)
(***************************************************************************)
\* <html><head></head><body></body></html>
HTML_MINIMAL ==
    [ogTitle |-> undefined, ogDescription |-> undefined, ogImage |-> undefined,
     ogSiteName |-> undefined, twTitle |-> undefined,
     twDescription |-> undefined, twImage |-> undefined, title |-> undefined,
     h1 |-> undefined, description |-> undefined, iconHref |-> undefined]

(***************************************************************************)
(* Typed errors (types/errors.ts).                                         *)
(***************************************************************************)
null == <<"<null>">>

NetworkError(message, url) ==
    [name |-> "NetworkError", message |-> message, url |-> url,
     timeout |-> 0, source |-> HTML_MINIMAL]

TimeoutError(url, timeout) ==
    [name |-> "TimeoutError", message |-> <<"request timed out">>, url |-> url,
     timeout |-> timeout, source |-> HTML_MINIMAL]

ParseError(message, source) ==
    [name |-> "ParseError", message |-> message, url |-> undefined,
     timeout |-> 0, source |-> source]

NoError ==
    [name |-> "none", message |-> <<>>, url |-> undefined,
     timeout |-> 0, source |-> HTML_MINIMAL]

(***************************************************************************)
(* MetadataParser (core/link-metadata/parser.ts).                          *)
(***************************************************************************)
Schemes == {"https://", "http://"}
HostNames == {"example.com", "other.org"}

\* new URL(url) does not throw: a scheme and a host, blanks around stripped
IsValidURL(url) ==
    LET u == trim(url) IN
    /\ Len(u) >= 2
    /\ LowerToken(u[1]) \in Schemes
    /\ LowerToken(u[2]) \in HostNames

\* the host name as written in the url, its case kept
hostnameAsWritten(url) == <<trim(url)[2]>>

\* new URL(url).hostname
hostname(url) == <<LowerToken(trim(url)[2])>>

\* new URL(url).origin
origin(url) == <<LowerToken(trim(url)[1]), LowerToken(trim(url)[2])>>

\* a string is truthy when it is neither undefined nor null nor empty
TruthyString(s) == s # undefined /\ s # null /\ s # <<>>

OpenGraphStrategy(url, html) ==
    [title |-> html.ogTitle, description |-> html.ogDescription,
     image |-> html.ogImage, siteName |-> html.ogSiteName]

TwitterCardStrategy(url, html) ==
    [title |-> html.twTitle, description |-> html.twDescription,
     image |-> html.twImage]

SlashTokens == {"/", "/favicon.png", "/images/test.jpg", "//cdn.example.com/icon.png"}

\* String.prototype.startsWith('/')
startsWithSlash(s) == s # <<>> /\ Head(s) \in SlashTokens

\* getFavicon that returns every href as it is written
getFaviconUnresolved(html, baseUrl) ==
    IF TruthyString(html.iconHref) THEN html.iconHref
    ELSE origin(baseUrl) \o <<"/favicon.ico">>

\* StandardHTMLStrategy.getFavicon
getFavicon(html, baseUrl) ==
    IF TruthyString(html.iconHref)
    THEN IF startsWithSlash(html.iconHref)
         THEN origin(baseUrl) \o html.iconHref
         ELSE html.iconHref
    ELSE origin(baseUrl) \o <<"/favicon.ico">>

\* StandardHTMLStrategy without the <h1> fallback
StandardHTMLStrategyNoH1(url, html) ==
    [title |-> html.title, description |-> html.description,
     favicon |-> getFavicon(html, url)]

StandardHTMLStrategy(url, html) ==
    LET h1 == IF html.h1 # undefined /\ TruthyString(trim(html.h1))
              THEN trim(html.h1) ELSE undefined
        title == IF TruthyString(html.title) THEN html.title ELSE h1 IN
    [title |-> title, description |-> html.description,
     favicon |-> getFavicon(html, url)]

\* Object.assign(target, source): every own property of source is copied,
\* one whose value is undefined as well
ObjectAssign(target, source) ==
    [f \in DOMAIN target \cup DOMAIN source |->
        IF f \in DOMAIN source THEN source[f] ELSE target[f]]

LineBreaks == {"\r\n", "\n", "\r"}

\* replace(/\r\n|\n|\r/g, "")
removeLineBreaks(s) == SelectSeq(s, LAMBDA t : t \notin LineBreaks)

\* replace(/\\/g, "\\\\")
RECURSIVE escapeBackslashes(_)
escapeBackslashes(s) ==
    IF s = <<>> THEN <<>>
    ELSE IF Head(s) = "\\" THEN <<"\\", "\\">> \o escapeBackslashes(Tail(s))
    ELSE <<Head(s)>> \o escapeBackslashes(Tail(s))

\* replace(/"/g, '\\"')
RECURSIVE escapeQuotes(_)
escapeQuotes(s) ==
    IF s = <<>> THEN <<>>
    ELSE IF Head(s) = "\"" THEN <<"\\", "\"">> \o escapeQuotes(Tail(s))
    ELSE <<Head(s)>> \o escapeQuotes(Tail(s))

cleanString(s) == trim(escapeQuotes(escapeBackslashes(removeLineBreaks(s))))

\* MetadataParser.cleanMetadata
cleanMetadata(metadata) ==
    [metadata EXCEPT
        !.title = IF TruthyString(@) THEN cleanString(@) ELSE @,
        !.description = IF TruthyString(@) THEN cleanString(@) ELSE @]

\* the record with the properties it lacks read as undefined
AsLinkMetadata(partial) ==
    [f \in DOMAIN undefinedMetadata |->
        IF f \in DOMAIN partial THEN partial[f] ELSE undefined]

\* the record parse returns when nothing throws, without the title fallback
parseNoTitleFallback(url, html) ==
    LET initial == [url |-> url, host |-> hostname(url), indent |-> 0]
        og == ObjectAssign(initial, OpenGraphStrategy(url, html))
        tw == ObjectAssign(og, TwitterCardStrategy(url, html))
        std == ObjectAssign(tw, StandardHTMLStrategy(url, html)) IN
    AsLinkMetadata(cleanMetadata(std))

\* the record parse returns when nothing throws
parseMetadata(url, html) ==
    LET initial == [url |-> url, host |-> hostname(url), indent |-> 0]
        og == ObjectAssign(initial, OpenGraphStrategy(url, html))
        tw == ObjectAssign(og, TwitterCardStrategy(url, html))
        std == ObjectAssign(tw, StandardHTMLStrategy(url, html))
        cleaned == cleanMetadata(std) IN
    AsLinkMetadata(IF TruthyString(cleaned.title) THEN cleaned
                   ELSE [cleaned EXCEPT !.title = url])

\* MetadataParser.parse: the record, or the ParseError thrown
parse(url, html) ==
    IF IsValidURL(url)
    THEN [ok |-> TRUE, metadata |-> parseMetadata(url, html), error |-> NoError]
    ELSE [ok |-> FALSE, metadata |-> undefinedMetadata,
          error |-> ParseError(<<"Invalid URL">>, html)]

\* the strategies the constructor of MetadataParser registers, in order
DefaultStrategies == <<"OpenGraph", "TwitterCard", "StandardHTML">>

\* strategies a caller may register besides: one that throws an Error, one
\* that throws a ParseError of its own, one that returns a title
CustomStrategies == {"ThrowsError", "ThrowsParseError", "CustomTitle"}

\* an Error that is not one of the typed errors
PlainError(message) == [NoError EXCEPT !.name = "Error", !.message = message]

\* the source the ParseError of a strategy carries
HTML_FRAGMENT == [HTML_MINIMAL EXCEPT !.h1 = <<"fragment">>]

\* strategy.parse(url, htmlContent): what it returns, or what it throws
strategyOutcome(name, url, html) ==
    CASE name = "OpenGraph" ->
            [threw |-> FALSE, result |-> OpenGraphStrategy(url, html),
             error |-> NoError]
      [] name = "TwitterCard" ->
            [threw |-> FALSE, result |-> TwitterCardStrategy(url, html),
             error |-> NoError]
      [] name = "StandardHTML" ->
            [threw |-> FALSE, result |-> StandardHTMLStrategy(url, html),
             error |-> NoError]
      [] name = "CustomTitle" ->
            [threw |-> FALSE, result |-> [title |-> <<"Custom Title">>],
             error |-> NoError]
      [] name = "ThrowsParseError" ->
            [threw |-> TRUE, result |-> [indent |-> 0],
             error |-> ParseError(<<"bad markup">>, HTML_FRAGMENT)]
      [] OTHER ->
            [threw |-> TRUE, result |-> [indent |-> 0],
             error |-> PlainError(<<"strategy failed">>)]

\* for (const strategy of this.strategies) Object.assign(metadata, result),
\* up to the first strategy that throws
RECURSIVE applyStrategies(_, _, _, _)
applyStrategies(strats, url, html, metadata) ==
    IF strats = <<>>
    THEN [threw |-> FALSE, metadata |-> metadata, error |-> NoError]
    ELSE LET o == strategyOutcome(Head(strats), url, html) IN
         IF o.threw
         THEN [threw |-> TRUE, metadata |-> metadata, error |-> o.error]
         ELSE applyStrategies(Tail(strats), url, html,
                              ObjectAssign(metadata, o.result))

\* the catch block that wraps every error, a ParseError as well
caughtAlwaysWrapped(error, html) == ParseError(error.message, html)

\* the catch block of parse: a ParseError is thrown on as it is, any other
\* error is wrapped in a ParseError that carries the HTML
caught(error, html) ==
    IF error.name = "ParseError" THEN error
    ELSE ParseError(error.message, html)

\* MetadataParser.parse of a parser with these strategies registered
parseWith(strats, url, html) ==
    IF ~IsValidURL(url)
    THEN [ok |-> FALSE, metadata |-> undefinedMetadata,
          error |-> caught(PlainError(<<"Invalid URL">>), html)]
    ELSE LET initial == [url |-> url, host |-> hostname(url), indent |-> 0]
             r == applyStrategies(strats, url, html, initial)
             cleaned == cleanMetadata(r.metadata) IN
         IF r.threw
         THEN [ok |-> FALSE, metadata |-> undefinedMetadata,
               error |-> caught(r.error, html)]
         ELSE [ok |-> TRUE,
               metadata |-> AsLinkMetadata(
                   IF TruthyString(cleaned.title) THEN cleaned
                   ELSE [cleaned EXCEPT !.title = url]),
               error |-> NoError]

(***************************************************************************)
(* MetadataFetcher (core/link-metadata/fetcher.ts).  An Error thrown by    *)
(* requestUrl is modelled by its message.                                   *)
(***************************************************************************)
DEFAULT_FETCH_OPTIONS ==
    [timeout |-> 10000, maxRetries |-> 2, retryDelay |-> 1000]

\* { ...DEFAULT_FETCH_OPTIONS, ...options }; options is a set of
\* <<field, value>> pairs, one pair at most for a field
mergedOptions(options) ==
    [f \in DOMAIN DEFAULT_FETCH_OPTIONS |->
        IF \E p \in options : p[1] = f
        THEN (CHOOSE p \in options : p[1] = f)[2]
        ELSE DEFAULT_FETCH_OPTIONS[f]]

\* lastError.message.includes('timeout')
includesTimeout(message) == \E i \in 1..Len(message) : message[i] = "timeout"

\* the error fetchContent throws once the loop is over
fetchFailure(lastError, url, merged) ==
    IF lastError # null /\ includesTimeout(lastError)
    THEN TimeoutError(url, merged.timeout)
    ELSE NetworkError(IF lastError # null /\ lastError # <<>>
                      THEN lastError ELSE <<"Unknown network error">>, url)

NoResponse == [status |-> 0, text |-> HTML_MINIMAL]

(***************************************************************************)
(* URLs and metadata records used as inputs.                               *)
(***************************************************************************)
U_EXAMPLE == <<"https://", "example.com">>
U_EXAMPLE_UPPER == <<" ", "HTTPS://", "Example.com", " ">>
U_OTHER == <<"https://", "other.org">>
U_PAGE == <<"https://", "example.com", "/Page">>
U_EMPTY == <<>>
U_BLANK == <<" ">>

M_TEST == LinkMetadata(U_EXAMPLE, <<"Test Title">>, <<"example.com">>,
                       <<"https://", "example.com", "/favicon.ico">>,
                       <<"https://", "example.com", "/image.jpg">>)
M_OTHER == LinkMetadata(U_OTHER, <<"Other">>, <<"other.org">>,
                        <<"https://", "other.org", "/favicon.ico">>, undefined)

CacheUrls == {U_EXAMPLE, U_EXAMPLE_UPPER, U_OTHER, U_BLANK}
CacheMetas == {M_TEST, M_OTHER}

(***************************************************************************)
(* State.                                                                  *)
(***************************************************************************)
VARIABLES
    now,        \* the reading of Date.now()
    cache,      \* MetadataCache.cache, the Map in insertion order
    maxItems,   \* MetadataCache.options.maxItems
    ttl,        \* MetadataCache.options.ttl
    ret,        \* what the last MetadataCache.get returned
    lastSet,    \* the last set(url, metadata) not followed by set, delete or clear
    fill,       \* the keys inserted so far, while the cache has only been filled
    calls,      \* the asynchronous calls: where each one is and what it holds
    service,    \* the service object: its class, options and settings
    held,       \* the record a caller of the cache holds a reference to
    strategies  \* MetadataParser.strategies, in registration order

vars == <<now, cache, maxItems, ttl, ret, lastSet, fill, calls, service, held,
          strategies>>

\* a service object before any is constructed
NoService ==
    [class |-> "none", enableCache |-> FALSE, preferLocalImages |-> FALSE,
     fetchOptions |-> {}]

\* no record held, or one that is in no entry of the cache
NoHeld == [key |-> undefined, record |-> undefinedMetadata]

NoSet == [valid |-> FALSE, url |-> <<>>, data |-> undefinedMetadata, time |-> 0]
NoFill == [ok |-> FALSE, keys |-> <<>>, time |-> 0]

\* the last set is not followed: it is recorded by no operation
NotFollowed ==
    [valid |-> FALSE, url |-> <<>>, data |-> undefinedMetadata, time |-> -1]

\* what is recorded about the last set, where it is followed
follow(last, new) == IF last = NotFollowed THEN last ELSE new

\* the keys of a sequence of keys are pairwise different
Distinct(keys) == \A i, j \in 1..Len(keys) : i # j => keys[i] # keys[j]

CallIds == {1, 2}

\* the callers that make calls, one call at a time each
Callers == {1}

\* no file name: the image-save callback has not been invoked
NoFileName == [prefix |-> "", urlHash |-> <<>>, time |-> 0, ext |-> ""]

\* a call that has not been made
IdleCall ==
    [pc |-> "idle", kind |-> "none", url |-> <<>>,
     given |-> {},          \* the options the caller passed
     options |-> DEFAULT_FETCH_OPTIONS,
     attempt |-> 0, lastError |-> null,
     requests |-> 0,        \* how many times requestUrl was invoked
     errs |-> <<>>,         \* the errors of the failed attempts, in order
     served |-> NoResponse, \* the response requestUrl resolved with
     response |-> NoResponse,
     metadata |-> undefinedMetadata,    \* the record parse returned
     strategies |-> <<>>,   \* the strategies parse ran, for a call of parse
     steps |-> <<>>,        \* what getMetadata has called so far, in order
     stored |-> undefinedMetadata,  \* the record its cache.set left in the cache
     saves |-> 0,           \* how many times the image-save callback was invoked
     fileName |-> NoFileName,   \* the file name of its image save in progress
     saved |-> "none",      \* how the image-save callback settled
     before |-> <<>>,       \* the cache when getMetadata was called
     purged |-> FALSE,      \* its cache lookup deleted an expired entry
     alone |-> TRUE,        \* nothing else has changed the cache since
     status |-> "pending", value |-> undefinedMetadata, error |-> NoError]

\* the other pending calls learn that the cache has been changed
touch(cs, c, changed) ==
    [d \in CallIds |->
        IF d # c /\ changed /\ cs[d].pc \notin {"idle", "done"}
        THEN [cs[d] EXCEPT !.alone = FALSE] ELSE cs[d]]

\* a call that is over no longer needs what it held of the cache, nor the
\* file name it gave to the image-save callback
release(call) ==
    IF call.pc = "done"
    THEN [call EXCEPT !.before = <<>>, !.alone = TRUE, !.fileName = NoFileName]
    ELSE call

\* a call after it has called one more component
did(call, step) == [call EXCEPT !.steps = Append(@, step)]

\* the record a store holds for a URL, whatever its age
written(store, url) ==
    IF IndexOfKey(store, getCacheKey(url)) = 0 THEN undefinedMetadata
    ELSE store[IndexOfKey(store, getCacheKey(url))].data

\* the clock advances
Tick ==
    /\ now < MaxTime
    /\ now' = now + 1
    /\ UNCHANGED <<cache, maxItems, ttl, ret, lastSet, fill, calls, service, held, strategies>>

(***************************************************************************)
(* A MetadataCache used on its own.                                        *)
(***************************************************************************)
InitCache ==
    /\ now = 0
    /\ cache = <<>>
    /\ maxItems \in 0..MaxCapacity
    /\ ttl \in 0..MaxTTL
    /\ ret = undefinedMetadata
    /\ lastSet = NoSet
    /\ fill = [ok |-> TRUE, keys |-> <<>>, time |-> 0]
    /\ calls = [c \in CallIds |-> IdleCall]
    /\ service = NoService
    /\ held = NoHeld
    /\ strategies = DefaultStrategies

Cache_set(url, metadata) ==
    /\ cache' = setStore(cache, url, metadata, now, ttl, maxItems)
    /\ lastSet' = follow(lastSet, [valid |-> TRUE, url |-> url,
                                   data |-> metadata, time |-> now])
    /\ fill' = IF fill.ok /\ Len(fill.keys) <= maxItems
                  /\ Distinct(Append(fill.keys, getCacheKey(url)))
               THEN [ok |-> TRUE, keys |-> Append(fill.keys, getCacheKey(url)),
                     time |-> IF fill.keys = <<>> THEN now ELSE fill.time]
               ELSE NoFill
    /\ UNCHANGED <<now, maxItems, ttl, ret, calls, service, held, strategies>>

Cache_get(url) ==
    /\ ret' = getValue(cache, url, now)
    /\ cache' = getStore(cache, url, now)
    /\ fill' = NoFill
    /\ UNCHANGED <<now, maxItems, ttl, lastSet, calls, service, held, strategies>>

Cache_delete(url) ==
    /\ cache' = deleteStore(cache, url)
    /\ lastSet' = follow(lastSet, NoSet)
    /\ fill' = NoFill
    /\ UNCHANGED <<now, maxItems, ttl, ret, calls, service, held, strategies>>

Cache_clear ==
    /\ cache' = clearStore(cache)
    /\ lastSet' = follow(lastSet, NoSet)
    /\ fill' = NoFill
    /\ UNCHANGED <<now, maxItems, ttl, ret, calls, service, held, strategies>>

NextCache ==
    \/ Tick
    \/ \E url \in CacheUrls, metadata \in CacheMetas : Cache_set(url, metadata)
    \/ \E url \in CacheUrls : Cache_get(url)
    \/ \E url \in CacheUrls : Cache_delete(url)
    \/ Cache_clear

SpecCache == InitCache /\ [][NextCache]_vars

\* the same cache and the same operations, the last set and the filling of
\* the empty cache not being followed
InitStore ==
    /\ now = 0
    /\ cache = <<>>
    /\ maxItems \in 0..MaxCapacity
    /\ ttl \in 0..MaxTTL
    /\ ret = undefinedMetadata
    /\ lastSet = NotFollowed
    /\ fill = NoFill
    /\ calls = [c \in CallIds |-> IdleCall]
    /\ service = NoService
    /\ held = NoHeld
    /\ strategies = DefaultStrategies

SpecStore == InitStore /\ [][NextCache]_vars

(***************************************************************************)
(* A MetadataCache and a caller that keeps the records it hands in and is  *)
(* handed out.  set stores the object it is given and get returns the      *)
(* object stored (item.data), so the record the caller holds and the data  *)
(* of the entry are one object while that entry is in the Map.             *)
(***************************************************************************)
AliasUrls == {U_EXAMPLE, U_EXAMPLE_UPPER, U_OTHER}

\* the values a caller may write to the indent of a record
Indents == {0, 4}

\* the record handed in or out for url, as the caller holds it
holding(store, url, record) ==
    IF record = undefinedMetadata THEN NoHeld
    ELSE [key |-> getCacheKey(url), record |-> record]

\* the Map after  record.indent = indent  on the record held: the item
\* whose data is that record shows the new value
writeThrough(store, h, indent) ==
    LET i == IndexOfKey(store, h.key) IN
    IF h.key # undefined /\ i # 0
    THEN [store EXCEPT ![i].data.indent = indent]
    ELSE store

InitAlias ==
    /\ now = 0
    /\ cache = <<>>
    /\ maxItems \in 1..MaxCapacity
    /\ ttl \in 1..MaxTTL
    /\ ret = undefinedMetadata
    /\ lastSet = NoSet
    /\ fill = NoFill
    /\ calls = [c \in CallIds |-> IdleCall]
    /\ service = NoService
    /\ held = NoHeld
    /\ strategies = DefaultStrategies

\* set(url, metadata): the caller keeps the record it handed in
Held_set(url, metadata) ==
    /\ cache' = setStore(cache, url, metadata, now, ttl, maxItems)
    /\ lastSet' = [valid |-> TRUE, url |-> url, data |-> metadata, time |-> now]
    /\ held' = holding(cache', url, metadata)
    /\ UNCHANGED <<now, maxItems, ttl, ret, fill, calls, service, strategies>>

\* get(url): the caller keeps the record it was handed out
Held_get(url) ==
    /\ ret' = getValue(cache, url, now)
    /\ cache' = getStore(cache, url, now)
    /\ held' = holding(cache', url, ret')
    /\ UNCHANGED <<now, maxItems, ttl, lastSet, fill, calls, service, strategies>>

\* the caller overwrites the indent of the record it holds
\* (newMetadata.indent = this.options.metadata.indent)
Mutate(indent) ==
    /\ held # NoHeld
    /\ held' = [held EXCEPT !.record.indent = indent]
    /\ cache' = writeThrough(cache, held, indent)
    /\ UNCHANGED <<now, maxItems, ttl, ret, lastSet, fill, calls, service, strategies>>

NextAlias ==
    \/ Tick
    \/ \E url \in AliasUrls, metadata \in CacheMetas : Held_set(url, metadata)
    \/ \E url \in AliasUrls : Held_get(url)
    \/ \E indent \in Indents : Mutate(indent)
    \/ \E url \in AliasUrls : Cache_delete(url)
    \/ Cache_clear

SpecAlias == InitAlias /\ [][NextAlias]_vars

(***************************************************************************)
(* MetadataFetcher.fetchContent, one step per stretch between two awaits.  *)
(***************************************************************************)
MaxRetriesOption == 3

\* the options a caller may pass to fetchContent
FetchOptionsSet ==
    {{}} \cup {{<<"maxRetries", n>>} : n \in 0..MaxRetriesOption}
         \cup {{<<"maxRetries", 0>>, <<"timeout", 5000>>}}

\* the messages of the errors requestUrl may reject with
TransportErrors ==
    {<<"Request ", "timeout">>, <<"Request failed with status code ", "404">>,
     <<"net::ERR_CONNECTION_REFUSED">>, <<>>}

\* the responses requestUrl may resolve with
TransportResponses ==
    {[status |-> 200, text |-> HTML_MINIMAL],
     [status |-> 404, text |-> HTML_MINIMAL]}

\* fetchContent up to its first await: the options are merged and, when the
\* loop condition holds, requestUrl is invoked
enterFetchContent(call, url, options) ==
    LET merged == mergedOptions(options) IN
    IF 0 <= merged.maxRetries
    THEN [call EXCEPT !.url = url, !.given = options, !.options = merged,
                      !.attempt = 0, !.lastError = null, !.requests = 1,
                      !.pc = "request"]
    ELSE [call EXCEPT !.url = url, !.given = options, !.options = merged,
                      !.attempt = 0, !.lastError = null, !.pc = "done",
                      !.status = "rejected",
                      !.error = fetchFailure(null, url, merged)]

\* a caller invokes fetchContent(url, options)
FetchContent(c, url, options) ==
    /\ calls[c].pc = "idle"
    /\ calls' = [calls EXCEPT ![c] =
          enterFetchContent([IdleCall EXCEPT !.kind = "fetchContent"],
                            url, options)]
    /\ UNCHANGED <<now, cache, maxItems, ttl, ret, lastSet, fill, service, held, strategies>>

\* afterReject with the first error kept instead of the last (a plausible
\* slip: lastError assigned only while it is null)
afterRejectKeepFirst(call, message) ==
    LET kept == IF call.lastError = null THEN message ELSE call.lastError
        failed == [call EXCEPT !.lastError = kept,
                               !.errs = Append(call.errs, message)] IN
    IF call.attempt < call.options.maxRetries
    THEN [failed EXCEPT !.pc = "delay"]
    ELSE [failed EXCEPT !.pc = "done", !.status = "rejected",
                        !.error = fetchFailure(kept, call.url, call.options)]

\* afterReject with one retry too many (attempt <= maxRetries)
afterRejectOneMore(call, message) ==
    LET failed == [call EXCEPT !.lastError = message,
                               !.errs = Append(call.errs, message)] IN
    IF call.attempt <= call.options.maxRetries
    THEN [failed EXCEPT !.pc = "delay"]
    ELSE [failed EXCEPT !.pc = "done", !.status = "rejected",
                        !.error = fetchFailure(message, call.url, call.options)]

\* the call after requestUrl has rejected with an error of this message
afterReject(call, message) ==
    LET failed == [call EXCEPT !.lastError = message,
                               !.errs = Append(call.errs, message)] IN
    IF call.attempt < call.options.maxRetries
    THEN [failed EXCEPT !.pc = "delay"]
    ELSE [failed EXCEPT !.pc = "done", !.status = "rejected",
                        !.error = fetchFailure(message, call.url, call.options)]

\* the retry delay whose timer never resumes the loop
afterDelayNeverResumed(call) == call

\* the call after the retry delay: the next attempt invokes requestUrl
afterDelay(call) ==
    [call EXCEPT !.attempt = call.attempt + 1,
                 !.requests = call.requests + 1, !.pc = "request"]

\* afterResolve with a status check: a response of status 400 or more is
\* handled as a failed attempt
afterResolveCheckStatus(call, response) ==
    IF response.status >= 400
    THEN afterReject(call, <<"Request failed with status code ", "404">>)
    ELSE [call EXCEPT !.response = response, !.pc = "done",
                      !.status = "resolved"]

\* the call after requestUrl has resolved: the response is returned as it
\* is, its status code is not looked at
afterResolve(call, response) ==
    IF call.kind = "getMetadata"
    THEN [call EXCEPT !.response = response, !.pc = "fetched"]
    ELSE [call EXCEPT !.response = response, !.pc = "done",
                      !.status = "resolved"]

\* requestUrl resolves
RequestResolve(c, response) ==
    /\ calls[c].pc = "request"
    /\ calls' = [calls EXCEPT ![c] =
          [afterResolve(calls[c], response) EXCEPT !.served = response]]
    /\ UNCHANGED <<now, cache, maxItems, ttl, ret, lastSet, fill, service, held, strategies>>

\* requestUrl rejects: retry after the delay, or throw when out of retries
RequestReject(c, message) ==
    /\ calls[c].pc = "request"
    /\ calls' = [calls EXCEPT ![c] = release(afterReject(calls[c], message))]
    /\ UNCHANGED <<now, cache, maxItems, ttl, ret, lastSet, fill, service, held, strategies>>

\* the retry delay is over
RetryDelayOver(c) ==
    /\ calls[c].pc = "delay"
    /\ calls' = [calls EXCEPT ![c] = afterDelay(calls[c])]
    /\ UNCHANGED <<now, cache, maxItems, ttl, ret, lastSet, fill, service, held, strategies>>

InitFetcher ==
    /\ now = 0
    /\ cache = <<>>
    /\ maxItems = MaxCapacity
    /\ ttl = MaxTTL
    /\ ret = undefinedMetadata
    /\ lastSet = NoSet
    /\ fill = NoFill
    /\ calls = [c \in CallIds |-> IdleCall]
    /\ service = NoService
    /\ held = NoHeld
    /\ strategies = DefaultStrategies

NextFetcher ==
    \/ \E c \in Callers, url \in {U_EXAMPLE, U_OTHER},
          options \in FetchOptionsSet : FetchContent(c, url, options)
    \/ \E c \in Callers, response \in TransportResponses :
          RequestResolve(c, response)
    \/ \E c \in Callers, message \in TransportErrors :
          RequestReject(c, message)
    \/ \E c \in Callers : RetryDelayOver(c)

SpecFetcher == InitFetcher /\ [][NextFetcher]_vars

\* every request that has been made settles, one way or the other, and every
\* retry delay ends
FairTransport ==
    \A c \in Callers :
        /\ WF_vars(\/ \E response \in TransportResponses :
                         RequestResolve(c, response)
                   \/ \E message \in TransportErrors :
                         RequestReject(c, message))
        /\ WF_vars(RetryDelayOver(c))

SpecFetcherLive == SpecFetcher /\ FairTransport

(***************************************************************************)
(* LinkMetadataService (core/link-metadata/service.ts) and MetadataService *)
(* (services/metadata-service.ts): getMetadata, one step per stretch       *)
(* between two awaits, and clearCache.                                     *)
(***************************************************************************)
U_NOSCHEME == <<"example.com", "/Page">>
ServiceUrls == {U_EXAMPLE, U_OTHER, U_NOSCHEME}

HTML_TWITTER ==
    [HTML_MINIMAL EXCEPT !.twImage = <<"https://", "example.com", "/image.jpg">>,
                         !.title = <<"Test Title">>]
HTML_BLANK_TITLE == [HTML_MINIMAL EXCEPT !.title = <<" ", "\n", " ">>]

\* the responses requestUrl may resolve with for a page
PageResponses ==
    {[status |-> 200, text |-> HTML_TWITTER],
     [status |-> 404, text |-> HTML_BLANK_TITLE]}

PageErrors == {<<"Request ", "timeout">>, <<"net::ERR_CONNECTION_REFUSED">>}

\* what the image-save callback may resolve with: a path, or nothing
SavedPaths == {<<"local/path/to/image.jpg">>, undefined}

\* the letters and digits of a token of a URL, one by one
Alphanumerics(token) ==
    CASE token = "https://" -> <<"h", "t", "t", "p", "s">>
      [] token = "http://" -> <<"h", "t", "t", "p">>
      [] token = "HTTPS://" -> <<"H", "T", "T", "P", "S">>
      [] token = "example.com" ->
            <<"e", "x", "a", "m", "p", "l", "e", "c", "o", "m">>
      [] token = "Example.com" ->
            <<"E", "x", "a", "m", "p", "l", "e", "c", "o", "m">>
      [] token = "other.org" -> <<"o", "t", "h", "e", "r", "o", "r", "g">>
      [] token = "/Page" -> <<"P", "a", "g", "e">>
      [] token \in Whitespace -> <<>>

\* url.replace(/[^a-zA-Z0-9]/g, '')
RECURSIVE replaceNonAlphanumerics(_)
replaceNonAlphanumerics(url) ==
    IF url = <<>> THEN <<>>
    ELSE Alphanumerics(Head(url)) \o replaceNonAlphanumerics(Tail(url))

\* s.slice(-8): the last eight characters, or all of them
sliceLast8(s) == IF Len(s) <= 8 THEN s ELSE SubSeq(s, Len(s) - 7, Len(s))

\* getMetadata: the file name passed to the image-save callback at time t,
\* `${Date.now()}.png` or `image_${urlHash}_${Date.now()}.png`
fileName(svc, url, t) ==
    IF svc.class = "LinkMetadataService"
    THEN [prefix |-> "", urlHash |-> <<>>, time |-> t, ext |-> ".png"]
    ELSE [prefix |-> "image_",
          urlHash |-> sliceLast8(replaceNonAlphanumerics(url)),
          time |-> t, ext |-> ".png"]

\* the lookup that never finds anything
cachedMetadataNever(svc, store, url, t) == undefinedMetadata

\* getMetadata: const cachedMetadata = this.cache.get(url), caching enabled
cachedMetadata(svc, store, url, t) ==
    IF svc.enableCache THEN getValue(store, url, t) ELSE undefinedMetadata

\* the catch block that lets the failure of the image save out
saveFailedRethrow(call) ==
    [call EXCEPT !.saved = "rejected", !.pc = "done", !.status = "rejected",
                 !.error = [NoError EXCEPT !.name = "Error"]]

\* getMetadata when the image save fails: logged, the record is kept as it is
saveFailed(call) == [call EXCEPT !.saved = "rejected"]

\* the image step that writes the local path over a failed save as well
withSavedImageAlways(svc, metadata, savedPath) ==
    [metadata EXCEPT !.image = <<"local/path/to/image.jpg">>]

\* getMetadata: the record after the image save resolved with savedPath
withSavedImage(svc, metadata, savedPath) ==
    IF svc.class = "LinkMetadataService"
    THEN [metadata EXCEPT !.image = savedPath]
    ELSE IF TruthyString(savedPath)
         THEN [metadata EXCEPT !.localImage = savedPath,
                  !.image = IF svc.preferLocalImages THEN savedPath ELSE @]
         ELSE metadata

\* getMetadata from the image step on: cache.set when caching is enabled,
\* return metadata
finish(call, metadata) ==
    [call EXCEPT !.pc = "done", !.status = "resolved", !.value = metadata]

\* the call after the cache.set of its end, made when caching is enabled
afterSet(call, svc, store) ==
    IF svc.enableCache
    THEN [did(call, "Cache.set") EXCEPT !.stored = written(store, call.url)]
    ELSE call

\* the end of getMetadata that caches whether or not caching is enabled
storeAfterFinishAlways(svc, store, url, metadata, t) ==
    setStore(store, url, metadata, t, ttl, maxItems)

\* the end of getMetadata that returns the record without caching it
storeAfterFinishSkipped(svc, store, url, metadata, t) == store

\* the end of getMetadata that leaves an entry another call has written
storeAfterFinishKeepFirst(svc, store, url, metadata, t) ==
    IF svc.enableCache /\ IndexOfKey(store, getCacheKey(url)) = 0
    THEN setStore(store, url, metadata, t, ttl, maxItems) ELSE store

storeAfterFinish(svc, store, url, metadata, t) ==
    IF svc.enableCache
    THEN setStore(store, url, metadata, t, ttl, maxItems) ELSE store

\* the exception that reaches the caller as an error of another type
thrownAsNetworkError(call, error) ==
    [call EXCEPT !.pc = "done", !.status = "rejected",
                 !.error = NetworkError(error.message, call.url)]

\* getMetadata has no try around fetchContent and parse: what they throw
\* rejects the call as it is
thrown(call, error) ==
    [call EXCEPT !.pc = "done", !.status = "rejected", !.error = error]

\* a caller invokes getMetadata(url): a cached record is returned at once,
\* otherwise fetchContent is entered
GetMetadata(c, url) ==
    /\ calls[c].pc = "idle"
    /\ LET found == cachedMetadata(service, cache, url, now)
           store == IF service.enableCache THEN getStore(cache, url, now)
                    ELSE cache
           call == [IdleCall EXCEPT !.kind = "getMetadata", !.url = url,
                                    !.before = cache,
                                    !.purged = (store # cache),
                                    !.steps = IF service.enableCache
                                              THEN <<"Cache.get">> ELSE <<>>]
           next == IF found # undefinedMetadata
                   THEN finish(call, found)
                   ELSE enterFetchContent(did(call, "fetchContent"), url,
                                          service.fetchOptions) IN
       /\ cache' = store
       /\ calls' = [touch(calls, c, store # cache) EXCEPT ![c] = release(next)]
    /\ UNCHANGED <<now, maxItems, ttl, ret, lastSet, fill, service, held, strategies>>

\* fetchContent has returned: parse, then the image save or the end
FetchReturned(c) ==
    /\ calls[c].pc = "fetched"
    /\ LET call == did(calls[c], "parse")
           parsed == parse(call.url, call.response.text) IN
       IF ~parsed.ok
       THEN /\ calls' = [calls EXCEPT ![c] =
                  release(thrown(call, parsed.error))]
            /\ cache' = cache
       ELSE IF TruthyString(parsed.metadata.image)
       THEN /\ calls' = [calls EXCEPT ![c] =
                  [did(call, "saveImageToAttachment") EXCEPT
                      !.metadata = parsed.metadata,
                      !.fileName = fileName(service, call.url, now),
                      !.saves = call.saves + 1, !.pc = "saving"]]
            /\ cache' = cache
       ELSE /\ cache' = storeAfterFinish(service, cache, call.url,
                                         parsed.metadata, now)
            /\ calls' = [touch(calls, c, cache' # cache) EXCEPT ![c] =
                  release(finish(afterSet([call EXCEPT
                                              !.metadata = parsed.metadata],
                                          service, cache'),
                                 parsed.metadata))]
    /\ UNCHANGED <<now, maxItems, ttl, ret, lastSet, fill, service, held, strategies>>

\* the image-save callback resolves with a path
SaveResolve(c, savedPath) ==
    /\ calls[c].pc = "saving"
    /\ LET call == calls[c]
           metadata == withSavedImage(service, call.metadata, savedPath) IN
       /\ cache' = storeAfterFinish(service, cache, call.url, metadata, now)
       /\ calls' = [touch(calls, c, cache' # cache) EXCEPT ![c] =
             release(finish(afterSet([call EXCEPT !.saved = "resolved"],
                                     service, cache'),
                            metadata))]
    /\ UNCHANGED <<now, maxItems, ttl, ret, lastSet, fill, service, held, strategies>>

\* the image-save callback rejects (or throws)
SaveReject(c) ==
    /\ calls[c].pc = "saving"
    /\ LET call == saveFailed(calls[c]) IN
       IF call.pc = "done"
       THEN /\ calls' = [calls EXCEPT ![c] = release(call)]
            /\ cache' = cache
       ELSE /\ cache' = storeAfterFinish(service, cache, call.url,
                                         call.metadata, now)
            /\ calls' = [touch(calls, c, cache' # cache) EXCEPT ![c] =
                  release(finish(afterSet(call, service, cache'),
                                 call.metadata))]
    /\ UNCHANGED <<now, maxItems, ttl, ret, lastSet, fill, service, held, strategies>>

\* clearCache(url): one entry when url is a non-empty string, all otherwise
ClearCache(url) ==
    /\ cache' = IF TruthyString(url) THEN deleteStore(cache, url)
                ELSE clearStore(cache)
    /\ calls' = touch(calls, 0, cache' # cache)
    /\ UNCHANGED <<now, maxItems, ttl, ret, lastSet, fill, service, held, strategies>>

\* the caller has taken the outcome of a call
Return(c) ==
    /\ calls[c].pc = "done"
    /\ calls' = [calls EXCEPT ![c] = IdleCall]
    /\ UNCHANGED <<now, cache, maxItems, ttl, ret, lastSet, fill, service, held, strategies>>

Services ==
    {[class |-> "LinkMetadataService", enableCache |-> e,
      preferLocalImages |-> FALSE, fetchOptions |-> o] :
        e \in BOOLEAN, o \in {{<<"maxRetries", 1>>}}}
    \cup
    {[class |-> "MetadataService", enableCache |-> e,
      preferLocalImages |-> l, fetchOptions |-> o] :
        e \in BOOLEAN, l \in BOOLEAN, o \in {{<<"maxRetries", 1>>}}}

\* the capacities that differ in effect: only the URLs that parse are ever
\* cached, and a cache with room for more of them than there are is never
\* full
ServiceCapacities ==
    {n \in 1..MaxCapacity :
        n <= Cardinality({url \in ServiceUrls : IsValidURL(url)})}

Init ==
    /\ now = 0
    /\ cache = <<>>
    /\ maxItems \in ServiceCapacities
    /\ ttl \in 1..MaxTTL
    /\ ret = undefinedMetadata
    /\ lastSet = NoSet
    /\ fill = NoFill
    /\ calls = [c \in CallIds |-> IdleCall]
    /\ service \in Services
    /\ held = NoHeld
    /\ strategies = DefaultStrategies

Next ==
    \/ Tick
    \/ \E c \in Callers, url \in ServiceUrls : GetMetadata(c, url)
    \/ \E c \in Callers, response \in PageResponses : RequestResolve(c, response)
    \/ \E c \in Callers, message \in PageErrors : RequestReject(c, message)
    \/ \E c \in Callers : RetryDelayOver(c)
    \/ \E c \in Callers : FetchReturned(c)
    \/ \E c \in Callers, savedPath \in SavedPaths : SaveResolve(c, savedPath)
    \/ \E c \in Callers : SaveReject(c)
    \/ \E url \in ServiceUrls \cup {undefined, U_EMPTY} : ClearCache(url)
    \/ \E c \in Callers : Return(c)

Spec == Init /\ [][Next]_vars

(***************************************************************************)
(* A MetadataParser used on its own: strategies are registered and parse   *)
(* is called on URLs and documents.                                        *)
(***************************************************************************)
MaxRegistered == 1

ParserUrls == {U_EXAMPLE, U_PAGE, U_EXAMPLE_UPPER, U_NOSCHEME}

\* what the Open Graph tags of a document hold: none; title, description,
\* image and site name; a root-relative image alone
OgTags ==
    {[title |-> undefined, description |-> undefined, image |-> undefined,
      siteName |-> undefined],
     [title |-> <<"Test Title">>, description |-> <<"Test Description">>,
      image |-> <<"https://", "example.com", "/image.jpg">>,
      siteName |-> <<"Example Site">>],
     [title |-> undefined, description |-> undefined,
      image |-> <<"/images/test.jpg">>, siteName |-> undefined]}

\* what the Twitter Card tags hold: none; a title; an image
TwitterTags ==
    {[title |-> undefined, image |-> undefined],
     [title |-> <<"Card Title">>, image |-> undefined],
     [title |-> undefined, image |-> <<"https://", "other.org", "/card.png">>]}

\* the text of <title>: no tag, empty, blank, plain, with quotes
TitleTexts ==
    {undefined, <<>>, <<" ", "\n">>, <<"Standard Title">>,
     <<"Say ", "\"", "hi", "\"">>}

\* the text of the first <h1>: no tag, blank, padded, with a quote inside
H1Texts ==
    {undefined, <<" ">>, <<" ", "Fallback Title from H1", "\n">>,
     <<"Fallback ", "\"", "H1">>}

\* the href of the icon link: no tag, empty, root-relative, absolute,
\* relative, protocol-relative
IconHrefs ==
    {undefined, <<>>, <<"/favicon.png">>,
     <<"https://", "cdn.example.com", "/icon.png">>, <<"favicon.png">>,
     <<"//cdn.example.com/icon.png">>}

HtmlDocs ==
    {[HTML_MINIMAL EXCEPT !.ogTitle = og.title,
                          !.ogDescription = og.description,
                          !.ogImage = og.image, !.ogSiteName = og.siteName,
                          !.twTitle = tw.title, !.twImage = tw.image,
                          !.title = title, !.h1 = h1, !.iconHref = href] :
        og \in OgTags, tw \in TwitterTags, title \in TitleTexts,
        h1 \in H1Texts, href \in IconHrefs}

InitParser ==
    /\ now = 0
    /\ cache = <<>>
    /\ maxItems = MaxCapacity
    /\ ttl = MaxTTL
    /\ ret = undefinedMetadata
    /\ lastSet = NoSet
    /\ fill = NoFill
    /\ calls = [c \in CallIds |-> IdleCall]
    /\ service = NoService
    /\ held = NoHeld
    /\ strategies = DefaultStrategies

\* new MetadataParser(), between two calls of parse
NewParser ==
    /\ \A c \in CallIds : calls[c].pc = "idle"
    /\ strategies # DefaultStrategies
    /\ strategies' = DefaultStrategies
    /\ UNCHANGED <<now, cache, maxItems, ttl, ret, lastSet, fill, calls,
                   service, held>>

\* registerStrategy(strategy), between two calls of parse
RegisterStrategy(strategy) ==
    /\ \A c \in CallIds : calls[c].pc = "idle"
    /\ Len(strategies) < Len(DefaultStrategies) + MaxRegistered
    /\ strategies' = Append(strategies, strategy)
    /\ UNCHANGED <<now, cache, maxItems, ttl, ret, lastSet, fill, calls,
                   service, held>>

\* a caller invokes parse(url, htmlContent): it returns or throws at once
Parse(c, url, html) ==
    /\ calls[c].pc = "idle"
    /\ LET parsed == parseWith(strategies, url, html) IN
       calls' = [calls EXCEPT ![c] =
          [IdleCall EXCEPT !.kind = "parse", !.url = url,
                           !.strategies = strategies,
                           !.response = [status |-> 200, text |-> html],
                           !.pc = "done",
                           !.status = IF parsed.ok THEN "resolved"
                                      ELSE "rejected",
                           !.value = parsed.metadata,
                           !.error = parsed.error]]
    /\ UNCHANGED <<now, cache, maxItems, ttl, ret, lastSet, fill, service,
                   held, strategies>>

NextParser ==
    \/ NewParser
    \/ \E strategy \in CustomStrategies : RegisterStrategy(strategy)
    \/ \E c \in Callers, url \in ParserUrls, html \in HtmlDocs :
          Parse(c, url, html)
    \/ \E c \in Callers : Return(c)

SpecParser == InitParser /\ [][NextParser]_vars

\* texts with line breaks, backslashes, double quotes and blanks in them:
\* none, empty, blank, and the characters alone and next to each other
DirtyTexts ==
    {undefined, <<>>, <<" ", "\n">>, <<"a", "\\", "b">>,
     <<"\"", "q", "\"">>, <<"\\", "\"">>,
     <<" ", "line", "\r\n", "two", "\n">>, <<"\t", "\\", "\\", "\r", " ">>}

\* documents whose <title> and meta description hold such texts
DirtyDocs ==
    {[HTML_MINIMAL EXCEPT !.title = title, !.description = description] :
        title \in DirtyTexts, description \in DirtyTexts}

NextNormalize ==
    \/ \E c \in Callers, url \in {U_EXAMPLE, U_EXAMPLE_UPPER},
          html \in DirtyDocs : Parse(c, url, html)
    \/ \E c \in Callers : Return(c)

\* parse with the default strategies on documents whose texts need cleaning
SpecNormalize == InitParser /\ [][NextNormalize]_vars

(***************************************************************************)
(* Two callers of one service whose getMetadata calls overlap: each await  *)
(* of a call is a point where the other call may run.  Each caller makes   *)
(* one call and keeps its outcome; every request succeeds at its first     *)
(* attempt here, retries are those of SpecFetcher.                         *)
(***************************************************************************)
U_HTTP == <<"http://", "example.com">>
OverlapUrls == {U_EXAMPLE, U_HTTP, U_EXAMPLE_UPPER}

\* the paths the image-save callback resolves with
OverlapPaths == {<<"local/path/to/image.jpg">>, <<"local/path/to/image-1.jpg">>}

OverlapResponses == {[status |-> 200, text |-> HTML_TWITTER]}

InitOverlap ==
    /\ now = 0
    /\ cache = <<>>
    /\ maxItems \in 1..MaxCapacity
    /\ ttl \in 1..MaxTTL
    /\ ret = undefinedMetadata
    /\ lastSet = NoSet
    /\ fill = NoFill
    /\ calls = [c \in CallIds |-> IdleCall]
    /\ service \in {svc \in Services : svc.enableCache}
    /\ held = NoHeld
    /\ strategies = DefaultStrategies

NextOverlap ==
    \/ Tick
    \/ \E c \in CallIds, url \in OverlapUrls : GetMetadata(c, url)
    \/ \E c \in CallIds, response \in OverlapResponses :
          RequestResolve(c, response)
    \/ \E c \in CallIds : FetchReturned(c)
    \/ \E c \in CallIds, savedPath \in OverlapPaths : SaveResolve(c, savedPath)
    \/ \E c \in CallIds : SaveReject(c)

SpecOverlap == InitOverlap /\ [][NextOverlap]_vars

(***************************************************************************)
(* Properties of MetadataFetcher.fetchContent.                             *)
(***************************************************************************)
FetchCalls == {c \in CallIds : calls[c].kind = "fetchContent"}

\* the value of maxRetries in force for the options a caller passed
MaxRetriesOf(options) ==
    IF \E p \in options : p[1] = "maxRetries"
    THEN (CHOOSE p \in options : p[1] = "maxRetries")[2]
    ELSE 2

\* C5: requestUrl is never invoked more than maxRetries + 1 times; a call
\* all of whose attempts failed has invoked it exactly maxRetries + 1 times
\* (3 by default, 1 with maxRetries = 0) and has thrown a NetworkError or a
\* TimeoutError carrying the URL it was called with; a call with fewer failed
\* attempts has not thrown.
ExactlyMaxRetriesPlusOneAttempts ==
    \A c \in FetchCalls :
        LET call == calls[c]
            n == MaxRetriesOf(call.given) + 1 IN
        /\ call.requests <= n
        /\ (call.pc = "done" /\ call.status = "rejected")
              => /\ call.requests = n
                 /\ Len(call.errs) = n
                 /\ call.error.name \in {"NetworkError", "TimeoutError"}
                 /\ call.error.url = call.url
        /\ Len(call.errs) = n => (call.pc = "done" /\ call.status = "rejected")
        /\ (call.given = {} /\ call.status = "rejected") => call.requests = 3
        /\ (call.given = {<<"maxRetries", 0>>} /\ call.status = "rejected")
              => call.requests = 1

\* C5 witness: a call with the default options has failed three times and thrown
ExhaustedDefaultRetries ==
    \E c \in FetchCalls :
        /\ calls[c].given = {} /\ calls[c].status = "rejected"
        /\ Len(calls[c].errs) = 3

\* C6: once requestUrl has resolved, fetchContent has returned that very
\* response, whatever its status code, after exactly one invocation more
\* than there were failed attempts, and a call that returned is the one
\* whose request resolved.
ReturnsFirstResponse ==
    \A c \in FetchCalls :
        LET call == calls[c] IN
        /\ call.served # NoResponse
              => /\ call.pc = "done" /\ call.status = "resolved"
                 /\ call.response = call.served
                 /\ call.requests = Len(call.errs) + 1
                 /\ Len(call.errs) <= call.options.maxRetries
        /\ call.status = "resolved" => call.served # NoResponse

\* C6 witness: a 404 response returned as a success on the second attempt
Returned404AfterRetry ==
    \E c \in FetchCalls :
        /\ calls[c].status = "resolved" /\ calls[c].response.status = 404
        /\ Len(calls[c].errs) = 1 /\ calls[c].requests = 2

\* C7: the error thrown when the retries are used up is classified by the
\* error of the last attempt alone: a TimeoutError with the URL and the
\* timeout in force when its message includes 'timeout', a NetworkError with
\* the URL (and that message, when it has one) otherwise.
ClassifiedByLastError ==
    \A c \in FetchCalls :
        LET call == calls[c]
            last == call.errs[Len(call.errs)] IN
        (call.pc = "done" /\ call.status = "rejected")
            => IF "timeout" \in {last[i] : i \in 1..Len(last)}
               THEN call.error = TimeoutError(call.url, call.options.timeout)
               ELSE /\ call.error.name = "NetworkError"
                    /\ call.error.url = call.url
                    /\ last # <<>> => call.error.message = last

\* C7 witness: a 404 failure followed by timeouts, and a timeout followed by
\* a connection error, have both been classified
MixedErrorsClassified ==
    \E c \in FetchCalls :
        LET call == calls[c] IN
        /\ call.status = "rejected" /\ Len(call.errs) >= 2
        /\ \/ /\ call.errs[1] = <<"Request failed with status code ", "404">>
              /\ call.errs[Len(call.errs)] = <<"Request ", "timeout">>
              /\ call.error.name = "TimeoutError"
           \/ /\ call.errs[1] = <<"Request ", "timeout">>
              /\ call.errs[Len(call.errs)] = <<"net::ERR_CONNECTION_REFUSED">>
              /\ call.error.name = "NetworkError"

\* the attempts of a call are made one after the other: the requests made
\* are the settled ones and, while one is outstanding, that one
AttemptsInSequence(call) ==
    /\ call.requests <= MaxRetriesOf(call.given) + 1
    /\ call.requests = call.attempt + 1
    /\ call.pc = "request" => call.requests = Len(call.errs) + 1
    /\ call.pc = "delay" => call.requests = Len(call.errs)
    /\ call.pc = "done"
          => call.requests = Len(call.errs)
                                + (IF call.status = "resolved" THEN 1 ELSE 0)

\* a fetchContent call is over: it has returned a response or thrown a
\* TimeoutError or a NetworkError
Completed(call) ==
    /\ call.pc = "done"
    /\ \/ call.status = "resolved" /\ call.response = call.served
       \/ /\ call.status = "rejected"
          /\ call.error.name \in {"TimeoutError", "NetworkError"}

\* C28: when every request and every retry delay settles, every fetchContent
\* call completes, with a response or a TimeoutError or NetworkError, after
\* at most maxRetries + 1 attempts made one after the other.
EveryFetchCompletes ==
    /\ [](\A c \in FetchCalls : AttemptsInSequence(calls[c]))
    /\ \A c \in CallIds :
          (calls[c].kind = "fetchContent") ~> Completed(calls[c])

\* C28 witness: a call has returned the response of its last allowed attempt,
\* every attempt before it having failed
CompletedAtLastAttempt ==
    \E c \in FetchCalls :
        /\ Completed(calls[c]) /\ calls[c].status = "resolved"
        /\ calls[c].given = {<<"maxRetries", MaxRetriesOption>>}
        /\ calls[c].requests = MaxRetriesOption + 1
        /\ Len(calls[c].errs) = MaxRetriesOption

(***************************************************************************)
(* Properties of MetadataCache.                                            *)
(***************************************************************************)
\* the entry the cache holds for the key of url (0 when it holds none)
EntryOf(store, url) == IndexOfKey(store, getCacheKey(url))

\* the entries of a store whose key is not the key of url, in order
WithoutKeyOf(store, url) ==
    SelectSeq(store, LAMBDA item : item.key # getCacheKey(url))

\* C8: while the last set(u, m) is not followed by a set, delete or clear
\* and its TTL has not elapsed, get(u) returns m (maxItems >= 1).
RoundTrip ==
    (lastSet.valid /\ maxItems >= 1 /\ now < lastSet.time + ttl)
        => getValue(cache, lastSet.url, now) = lastSet.data

\* C9: the entry count never exceeds maxItems.
CountWithinMaxItems == Len(cache) <= maxItems

\* C10: after maxItems + 1 distinct keys went into an empty cache, and within
\* the TTL of the first, the first key is gone, the others are retrievable
\* and getStats().size is maxItems.
CapacityEviction ==
    (fill.ok /\ Len(fill.keys) = maxItems + 1 /\ now < fill.time + ttl)
        => /\ getValue(cache, fill.keys[1], now) = undefinedMetadata
           /\ \A i \in 2..Len(fill.keys) :
                  getValue(cache, fill.keys[i], now) # undefinedMetadata
           /\ getStats(cache).size = maxItems

\* C11: get of a URL whose entry was stored at time t returns the stored
\* value and leaves the store as it is while now < t + ttl; from t + ttl on
\* it returns undefined and removes that entry and no other.
ExpiredIsNeverReturned ==
    \A url \in CacheUrls :
        LET i == EntryOf(cache, url)
            returned == getValue(cache, url, now)
            after == getStore(cache, url, now)
        IN  i # 0
             => IF now < cache[i].timestamp + ttl
                THEN returned = cache[i].data /\ after = cache
                ELSE /\ returned = undefinedMetadata
                     /\ EntryOf(after, url) = 0
                     /\ after = MapDelete(cache, cache[i].key)
                     /\ Len(after) = Len(cache) - 1

\* C11 witness: the entry of the last set has outlived its TTL and a get has
\* removed it, another entry staying in the store
ExpiredEntryRemovedByGet ==
    /\ lastSet.valid /\ ttl >= 1 /\ maxItems >= 2
    /\ now >= lastSet.time + ttl
    /\ EntryOf(cache, lastSet.url) = 0
    /\ ret = undefinedMetadata
    /\ Len(cache) = 1

\* C12: keys are the trimmed, lower-cased URL: while the last set(u1, m) is
\* not followed by a set, delete or clear and its TTL has not elapsed, get(u2)
\* returns m for every u2 that normalizes as u1 does and delete(u2) removes
\* the entry; every key in the store is normalized and no two entries have
\* the same key (maxItems >= 1).
KeyNormalization ==
    /\ \A u2 \in CacheUrls :
          (lastSet.valid /\ maxItems >= 1 /\ now < lastSet.time + ttl
              /\ toLowerCase(trim(u2)) = toLowerCase(trim(lastSet.url)))
             => /\ getValue(cache, u2, now) = lastSet.data
                /\ EntryOf(cache, lastSet.url) # 0
                /\ EntryOf(deleteStore(cache, u2), lastSet.url) = 0
    /\ \A i \in 1..Len(cache) :
          /\ cache[i].key = toLowerCase(trim(cache[i].key))
          /\ \A j \in 1..Len(cache) : i # j => cache[i].key # cache[j].key

\* C13: a record handed out by get or handed in to set is a value: when the
\* caller overwrites its indent, what get returns for every URL stays what
\* it was.
CopyOnReturn ==
    [][\A indent \in Indents :
          Mutate(indent)
             => \A url \in AliasUrls :
                   getValue(cache', url, now) = getValue(cache, url, now)]_vars

\* C26: the entry a set removes for capacity has a createdAt that is minimal
\* among the entries in the store at that moment (the entry just written
\* included), and at most one entry is removed; a key that is set again gets
\* the createdAt now, the other entries keep theirs; get changes the
\* createdAt of no entry.
EvictsGlobalOldest ==
    /\ \A url \in CacheUrls :
          LET after == setStore(cache, url, M_TEST, now, ttl, maxItems)
              others == {i \in 1..Len(cache) :
                            cache[i].key # getCacheKey(url)}
              createdAt == {cache[i].timestamp : i \in others} \cup {now}
              removed == {i \in others : EntryOf(after, cache[i].key) = 0}
              newGone == EntryOf(after, url) = 0 IN
          /\ \A i \in removed : \A t \in createdAt : cache[i].timestamp <= t
          /\ newGone => \A t \in createdAt : now <= t
          /\ Cardinality(removed) + (IF newGone THEN 1 ELSE 0) <= 1
          /\ ~newGone => after[EntryOf(after, url)].timestamp = now
          /\ \A i \in others \ removed :
                after[EntryOf(after, cache[i].key)].timestamp
                    = cache[i].timestamp
    /\ \A url \in CacheUrls :
          LET after == getStore(cache, url, now) IN
          \A j \in 1..Len(after) : \E i \in 1..Len(cache) : cache[i] = after[j]

\* C26 witness: in a full store the entry whose record the last get returned
\* is older than the other and is the one a set of a new key removes
ReadEntryIsEvictedFirst ==
    /\ maxItems = 2 /\ Len(cache) = 2
    /\ cache[1].timestamp < cache[2].timestamp
    /\ ret = cache[1].data /\ ret # cache[2].data
    /\ \E url \in CacheUrls :
          /\ EntryOf(cache, url) = 0
          /\ EntryOf(setStore(cache, url, M_TEST, now, ttl, maxItems),
                     cache[1].key) = 0
          /\ EntryOf(setStore(cache, url, M_TEST, now, ttl, maxItems),
                     cache[2].key) # 0

\* the entries of a store that have outlived their TTL at clock reading t
ExpiredIn(store, t) == {i \in 1..Len(store) : t >= store[i].expiry}

\* every entry of the store, expired or not, is counted and listed by
\* getStats, and a get leaves the entries of the other keys as they are
CountedUntilRemoved ==
    /\ getStats(cache).size = Len(cache)
    /\ \A i \in 1..Len(cache) :
          \E k \in 1..Len(getStats(cache).keys) :
             getStats(cache).keys[k] = cache[i].key
    /\ \A url \in CacheUrls :
          WithoutKeyOf(getStore(cache, url, now), url) = WithoutKeyOf(cache, url)

\* an entry leaves the store in this step only by a get of its own key once
\* it has expired, a delete of its key, a clear, or a set that takes the
\* store over maxItems
RemovedOnlyByAnOperation ==
    \A i \in 1..Len(cache) :
        EntryOf(cache', cache[i].key) = 0
           => \/ \E url \in CacheUrls :
                    /\ Cache_get(url) /\ getCacheKey(url) = cache[i].key
                    /\ i \in ExpiredIn(cache, now)
              \/ \E url \in CacheUrls :
                    Cache_delete(url) /\ getCacheKey(url) = cache[i].key
              \/ Cache_clear
              \/ \E url \in CacheUrls, metadata \in CacheMetas :
                    /\ Cache_set(url, metadata)
                    /\ Len(cache) + (IF EntryOf(cache, url) = 0 THEN 1
                                     ELSE 0) > maxItems

\* C27: the passage of time alone leaves the store as it is; every entry,
\* expired or not, is counted in getStats().size and listed in
\* getStats().keys; an entry leaves the store only by a get of its own key
\* once it has expired, a delete of its key, a clear, or a set that takes the
\* store over maxItems, expired entries counting; a get leaves the entries of
\* the other keys as they are.
LazyExpiry ==
    /\ []CountedUntilRemoved
    /\ [][/\ now' # now => cache' = cache
          /\ cache' # cache => RemovedOnlyByAnOperation]_vars

\* C27 witness: an entry that has expired is still in a full store, counted
\* by getStats, after a get of the other key has returned that key's record
ExpiredEntryLingers ==
    /\ ttl >= 1 /\ maxItems = 2
    /\ getStats(cache).size = 2
    /\ ExpiredIn(cache, now) = {1}
    /\ ret = cache[2].data /\ ret # cache[1].data

(***************************************************************************)
(* Properties of getMetadata.                                              *)
(***************************************************************************)
\* call c starts as getMetadata(url) in this step
Starts(c, url) ==
    /\ calls[c].pc = "idle"
    /\ calls'[c].kind = "getMetadata" /\ calls'[c].url = url

\* C1: with caching enabled, a getMetadata(u) that starts while the cache
\* holds an entry for u that has not expired (stored by an earlier call and
\* neither cleared nor evicted since) resolves at once to the stored record,
\* invokes requestUrl not once and leaves the cache as it is; every entry of
\* the cache is the record of the URL it is stored under.
CachedIsReturnedWithoutFetch ==
    [][\A c \in CallIds, url \in ServiceUrls :
          LET i == EntryOf(cache, url) IN
          (Starts(c, url) /\ service.enableCache /\ i # 0
                /\ now < cache[i].expiry)
             => /\ calls'[c].pc = "done" /\ calls'[c].status = "resolved"
                /\ calls'[c].value = cache[i].data
                /\ getCacheKey(cache[i].data.url) = getCacheKey(url)
                /\ calls'[c].requests = 0 /\ calls'[c].saves = 0
                /\ cache' = cache]_vars

\* C1 witness: a call has resolved from the cache, after the clock has moved
\* on, without a request
ResolvedFromCache ==
    \E c \in CallIds :
        /\ calls[c].kind = "getMetadata" /\ calls[c].status = "resolved"
        /\ calls[c].requests = 0 /\ now > 0
        /\ EntryOf(cache, calls[c].url) # 0
        /\ cache[EntryOf(cache, calls[c].url)].timestamp < now
        /\ cache[EntryOf(cache, calls[c].url)].data = calls[c].value

TypedErrorNames == {"NetworkError", "TimeoutError", "ParseError", "CacheError"}

SaveFailureTolerated ==
    [][\A c \in CallIds :
          (calls[c].pc = "saving" /\ calls'[c].saved = "rejected")
             => LET parsed == parse(calls[c].url, calls[c].response.text)
                    i == EntryOf(cache', calls[c].url) IN
                /\ calls'[c].pc = "done" /\ calls'[c].status = "resolved"
                /\ calls'[c].value = parsed.metadata
                /\ calls'[c].value.image = calls[c].response.text.twImage
                /\ service.enableCache
                      => /\ i # 0
                         /\ cache'[i].data = calls'[c].value
                         /\ cache'[i].timestamp = now
                         /\ cache'[i].expiry = now + ttl
                /\ ~service.enableCache => cache' = cache]_vars

\* C3 witness: a call whose image save was rejected has resolved with the
\* remote image and its record is in the cache
ResolvedAfterSaveRejected ==
    \E c \in CallIds :
        /\ calls[c].saved = "rejected" /\ calls[c].status = "resolved"
        /\ calls[c].saves = 1
        /\ calls[c].value.image = <<"https://", "example.com", "/image.jpg">>
        /\ service.enableCache
        /\ getValue(cache, calls[c].url, now) = calls[c].value

\* call c, a getMetadata in progress, rejects in this step
Rejects(c) ==
    /\ calls[c].kind = "getMetadata" /\ calls[c].pc \notin {"idle", "done"}
    /\ calls'[c].pc = "done" /\ calls'[c].status = "rejected"

\* the error of the step in which call c rejects is the one fetchContent or
\* parse threw, requestUrl was invoked as often as fetchContent alone invokes
\* it, and the image-save callback was not invoked
PropagatesUnmodified(c) ==
    LET call == calls[c] IN
    /\ calls'[c].saves = 0 /\ calls'[c].saved = "none"
    /\ IF call.pc = "request"
       THEN /\ calls'[c].errs # <<>>
            /\ calls'[c].error =
                  fetchFailure(calls'[c].errs[Len(calls'[c].errs)], call.url,
                               mergedOptions(service.fetchOptions))
            /\ calls'[c].requests = mergedOptions(service.fetchOptions).maxRetries + 1
            /\ Len(calls'[c].errs) = calls'[c].requests
       ELSE /\ call.pc = "fetched"
            /\ ~parse(call.url, call.response.text).ok
            /\ calls'[c].error = parse(call.url, call.response.text).error
            /\ calls'[c].requests = Len(call.errs) + 1

\* C4 as stated: when fetchContent or parse throws, getMetadata rejects with
\* that error, the image-save callback is not invoked, and the cache, when
\* nothing else has changed it, is what it was when the call was made.
FailureLeavesCacheExactly ==
    [][\A c \in CallIds :
          Rejects(c)
             => /\ PropagatesUnmodified(c)
                /\ calls[c].alone => cache' = calls[c].before]_vars

\* C4 amended: when fetchContent or parse throws, getMetadata rejects with
\* that error, the image-save callback is not invoked and no entry is
\* written: the cache, when nothing else has changed it, is what it was
\* when the call was made, less the expired entry of the URL that the lookup
\* of the call deleted (caching enabled).
FailureWritesNoEntry ==
    [][\A c \in CallIds :
          Rejects(c)
             => LET before == calls[c].before
                    i == EntryOf(before, calls[c].url) IN
                /\ PropagatesUnmodified(c)
                /\ calls[c].alone
                      => /\ cache' = IF service.enableCache /\ i # 0
                                     THEN deleteStore(before, calls[c].url)
                                     ELSE before
                         /\ service.enableCache
                               => EntryOf(cache', calls[c].url) = 0
                /\ (service.enableCache /\ i # 0) => before[i].expiry <= now
                /\ calls[c].purged <=> (service.enableCache /\ i # 0)]_vars

\* C4 witness: a call whose lookup deleted an expired entry has rejected
\* with a TimeoutError after a retry, and the cache holds another entry still
RejectedAfterPurge ==
    \E c \in CallIds :
        /\ calls[c].kind = "getMetadata" /\ calls[c].status = "rejected"
        /\ calls[c].error.name = "TimeoutError" /\ calls[c].purged
        /\ calls[c].requests = 2 /\ cache # <<>>

\* C14: with enableCache = false the cache is never read or written: it stays
\* empty, and every getMetadata call, repeated ones for a URL included, has
\* invoked requestUrl and, when it resolved, has parsed the response it got.
CacheBypassed ==
    ~service.enableCache
       => /\ cache = <<>>
          /\ \A c \in CallIds :
                LET call == calls[c] IN
                (call.kind = "getMetadata" /\ call.pc # "idle")
                   => /\ call.requests >= 1
                      /\ call.before = <<>> /\ ~call.purged
                      /\ call.status = "resolved"
                            => /\ call.served # NoResponse
                               /\ call.requests = Len(call.errs) + 1
                               /\ call.metadata =
                                     parse(call.url, call.response.text).metadata

\* C14 witness: with caching disabled a call has resolved after a retry and
\* an image save, later than the first clock reading, and the cache is empty
ResolvedWithoutCache ==
    \E c \in CallIds :
        /\ ~service.enableCache /\ cache = <<>> /\ now > 0
        /\ calls[c].kind = "getMetadata" /\ calls[c].status = "resolved"
        /\ calls[c].requests = 2 /\ calls[c].saved = "resolved"

(***************************************************************************)
(* Properties of MetadataParser.parse.                                     *)
(***************************************************************************)
\* the calls of parse that returned, made on a parser with the default
\* strategies
DefaultParses ==
    {c \in CallIds : /\ calls[c].kind = "parse" /\ calls[c].status = "resolved"
                     /\ calls[c].strategies = DefaultStrategies}

\* the last of the values, in order, that is a value found (not undefined)
RECURSIVE lastFound(_)
lastFound(values) ==
    IF values = <<>> THEN undefined
    ELSE IF values[Len(values)] # undefined THEN values[Len(values)]
    ELSE lastFound(SubSeq(values, 1, Len(values) - 1))

\* what <title>, or else the first <h1>, gives the Standard HTML strategy
StandardTitle(html) ==
    IF TruthyString(html.title) THEN html.title
    ELSE IF html.h1 # undefined /\ TruthyString(trim(html.h1))
    THEN trim(html.h1) ELSE undefined

\* C15: title, description and image of the record parse returns are those
\* of the last strategy, in the order Open Graph, Twitter Card, Standard
\* HTML, that found a value (title and description normalized, the title
\* replaced by the url when empty); a strategy that found none erases
\* nothing, and the site name is that of og:site_name.
MergePrecedence ==
    \A c \in DefaultParses :
        LET html == calls[c].response.text
            value == calls[c].value
            title == lastFound(<<html.ogTitle, html.twTitle,
                                 StandardTitle(html)>>)
            description == lastFound(<<html.ogDescription, html.twDescription,
                                       html.description>>)
            image == lastFound(<<html.ogImage, html.twImage>>) IN
        /\ value.image = image
        /\ value.siteName = html.ogSiteName
        /\ value.description = IF TruthyString(description)
                               THEN cleanString(description) ELSE description
        /\ value.title = IF TruthyString(title) /\ cleanString(title) # <<>>
                         THEN cleanString(title) ELSE calls[c].url

\* no <title>, og:title or twitter:title, and an <h1> with text
OnlyH1Title(html) ==
    /\ html.title = undefined /\ html.ogTitle = undefined
    /\ html.twTitle = undefined
    /\ html.h1 # undefined /\ trim(html.h1) # <<>>

\* no strategy yields a title, or the title extracted is empty once
\* normalized
NoUsableTitle(html) ==
    LET title == lastFound(<<html.ogTitle, html.twTitle,
                             StandardTitle(html)>>) IN
    title = undefined \/ cleanString(title) = <<>>

\* C16 as stated: the title of a successful parse is never empty; with no
\* <title>, og:title or twitter:title it is the trimmed text of the first
\* <h1>; with no title from any strategy, or one that is empty once
\* normalized, it is the input url.
TitleIsTrimmedH1 ==
    \A c \in DefaultParses :
        LET html == calls[c].response.text
            value == calls[c].value IN
        /\ TruthyString(value.title)
        /\ OnlyH1Title(html) => value.title = trim(html.h1)
        /\ NoUsableTitle(html) => value.title = calls[c].url

\* C16 amended: the title of a successful parse is never empty; with no
\* <title>, og:title or twitter:title it is the trimmed text of the first
\* <h1> normalized as every title is (line breaks removed, backslashes
\* and double quotes escaped, trimmed); with no title from any strategy, or
\* one that is empty once normalized, it is the input url.
TitleNeverEmpty ==
    \A c \in DefaultParses :
        LET html == calls[c].response.text
            value == calls[c].value IN
        /\ TruthyString(value.title)
        /\ OnlyH1Title(html) => value.title = cleanString(trim(html.h1))
        /\ NoUsableTitle(html) => value.title = calls[c].url

\* C16 witness: a title taken from an <h1> with a double quote in it, and
\* so not the text of the <h1>
TitleFromEscapedH1 ==
    \E c \in DefaultParses :
        /\ OnlyH1Title(calls[c].response.text)
        /\ calls[c].value.title = <<"Fallback ", "\\", "\"", "H1">>
        /\ calls[c].value.title # trim(calls[c].response.text.h1)

IsAbsolute(href) == TruthyString(href) /\ Head(href) \in Schemes

\* an href that is a path from the root (one leading slash)
IsRootRelative(href) ==
    /\ TruthyString(href)
    /\ Head(href) \in {"/", "/favicon.png", "/images/test.jpg"}

\* C18: parse always returns a favicon: the href of the icon link as it is
\* when it is absolute, the origin of the URL followed by the href when it
\* is root-relative, and origin + /favicon.ico when there is no icon link or
\* no href.
FaviconResolved ==
    \A c \in DefaultParses :
        LET href == calls[c].response.text.iconHref
            favicon == calls[c].value.favicon
            org == <<"https://", "example.com">> IN
        /\ TruthyString(favicon)
        /\ IsAbsolute(href) => favicon = href
        /\ IsRootRelative(href) => favicon = org \o href
        /\ (href = undefined \/ href = <<>>)
              => favicon = org \o <<"/favicon.ico">>

\* C18 witness: a root-relative icon of a page resolved against the origin
\* of the page, for the URL written in capitals
RootRelativeFaviconResolved ==
    \E c \in DefaultParses :
        /\ calls[c].url = U_EXAMPLE_UPPER
        /\ calls[c].response.text.iconHref = <<"/favicon.png">>
        /\ calls[c].value.favicon = <<"https://", "example.com", "/favicon.png">>

\* C19: a root-relative og:image (no twitter:image beside it) is returned
\* resolved against the origin of the page URL, as a root-relative icon
\* href is.
RelativeImageResolved ==
    \A c \in DefaultParses :
        LET html == calls[c].response.text IN
        (IsRootRelative(html.ogImage) /\ html.twImage = undefined)
           => calls[c].value.image = <<"https://", "example.com">> \o html.ogImage

\* the first of the strategies that throws ("none" when none does)
RECURSIVE FirstThrowing(_)
FirstThrowing(strats) ==
    IF strats = <<>> THEN "none"
    ELSE IF Head(strats) \in {"ThrowsError", "ThrowsParseError"}
    THEN Head(strats)
    ELSE FirstThrowing(Tail(strats))

SavedImageRecorded ==
    [][\A c \in Callers, p \in SavedPaths :
          (SaveResolve(c, p) /\ TruthyString(p))
             => LET r == calls'[c].value IN
                /\ calls'[c].status = "resolved"
                /\ r.localImage = p
                /\ r.image = IF service.preferLocalImages THEN p
                             ELSE calls[c].metadata.image
                /\ service.enableCache
                      => getValue(cache', calls[c].url, now) = r]_vars

\* C22: clearCache(url) with a string url, the empty string included,
\* removes the entry whose key is the normalized url and leaves every other
\* entry as it is; clearCache() removes every entry, after which getStats
\* reports size 0 and no keys.
ClearCacheRemovesOnlyTheKey ==
    [][/\ \A url \in ServiceUrls \cup {U_EMPTY} :
             ClearCache(url) => cache' = WithoutKeyOf(cache, url)
       /\ ClearCache(undefined)
             => /\ cache' = <<>>
                /\ getStats(cache').size = 0
                /\ getStats(cache').keys = <<>>]_vars

\* the calls getMetadata makes on a cache miss, in order, for a parsed record
\* with or without an image
MissOrder(image) ==
    <<"Cache.get", "fetchContent", "parse">>
       \o (IF image THEN <<"saveImageToAttachment">> ELSE <<>>)
       \o <<"Cache.set">>

IsPrefix(s, t) == Len(s) <= Len(t) /\ \A i \in 1..Len(s) : s[i] = t[i]

\* C23: on a cache miss getMetadata calls Cache.get, fetchContent, parse, the
\* image-save callback (only when the parsed record has an image) and
\* Cache.set in this order and each at most once, and the record Cache.set
\* writes is the record returned, image rewrite included.
StepsInFixedOrder ==
    \A c \in CallIds :
        LET call == calls[c]
            image == TruthyString(call.metadata.image) IN
        (call.kind = "getMetadata" /\ service.enableCache /\ call.requests > 0)
            => /\ IsPrefix(call.steps, MissOrder(TRUE))
                     \/ IsPrefix(call.steps, MissOrder(FALSE))
               /\ call.pc \in {"request", "delay", "fetched"}
                     => call.steps = <<"Cache.get", "fetchContent">>
               /\ call.pc = "saving"
                     => /\ call.steps = SubSeq(MissOrder(TRUE), 1, 4)
                        /\ image /\ call.saves = 1
               /\ (call.pc = "done" /\ call.status = "rejected")
                     => Len(call.steps) \in {2, 3} /\ call.saves = 0
               /\ (call.pc = "done" /\ call.status = "resolved")
                     => /\ call.steps = MissOrder(image)
                        /\ call.saves = (IF image THEN 1 ELSE 0)
                        /\ call.stored = call.value

\* C23 witness: a call that missed the cache has resolved after one image
\* save, and the record it cached is the rewritten record it returned
MissResolvedWithRewrittenRecord ==
    \E c \in CallIds :
        /\ calls[c].kind = "getMetadata" /\ calls[c].status = "resolved"
        /\ service.enableCache /\ calls[c].requests = 2
        /\ calls[c].steps = MissOrder(TRUE)
        /\ calls[c].saved = "resolved"
        /\ calls[c].value.image = <<"local/path/to/image.jpg">>
        /\ calls[c].value # calls[c].metadata
        /\ calls[c].stored = calls[c].value

(***************************************************************************)
(* Properties of overlapping getMetadata calls.                            *)
(***************************************************************************)
\* call c, a getMetadata in progress, resolves in this step
Resolves(c) ==
    /\ calls[c].kind = "getMetadata" /\ calls[c].pc \notin {"idle", "done"}
    /\ calls'[c].pc = "done" /\ calls'[c].status = "resolved"

\* the entries a store holds for a URL
EntriesOf(store, url) ==
    {i \in 1..Len(store) : store[i].key = getCacheKey(url)}

\* C24: a getMetadata(u) that starts while another getMetadata(u) is in
\* progress and u is not cached misses the cache and makes its own request,
\* the other call going on as it was; when the later of two such calls
\* resolves, each has made its own request and its own image save, and the
\* cache holds one entry for u, the record of the call that has just
\* executed Cache.set.
NoSingleFlight ==
    [][\A c, d \in CallIds, u \in OverlapUrls :
          (c # d /\ calls[d].kind = "getMetadata" /\ calls[d].url = u)
             => /\ (Starts(c, u) /\ calls[d].pc \notin {"idle", "done"}
                       /\ getValue(cache, u, now) = undefinedMetadata)
                      => /\ calls'[c].pc = "request"
                         /\ calls'[c].requests = 1
                         /\ calls'[d] = calls[d]
                /\ (Resolves(c) /\ calls[c].url = u
                       /\ calls[d].status = "resolved"
                       /\ calls[c].requests > 0 /\ calls[d].requests > 0)
                      => /\ calls'[c].saves = 1 /\ calls[d].saves = 1
                         /\ Cardinality(EntriesOf(cache', u)) = 1
                         /\ written(cache', u) = calls'[c].value]_vars

\* C24 witness: two calls for one URL have overlapped (the clock has not
\* moved), each has made a request and an image save, they resolved to
\* different records and the cache holds the record of the second alone
BothMissedLastSetWins ==
    /\ now = 0
    /\ \A c \in CallIds :
          /\ calls[c].kind = "getMetadata" /\ calls[c].url = U_EXAMPLE
          /\ calls[c].status = "resolved"
          /\ calls[c].requests = 1 /\ calls[c].saves = 1
    /\ calls[1].value # calls[2].value
    /\ Len(cache) = 1
    /\ cache[1].data = calls[2].value

\* C25: two image saves in progress for two different page URLs have been
\* given different file names, also when the two calls read the same clock
\* value.
FileNamesCollisionFree ==
    \A c, d \in CallIds :
        (c # d /\ calls[c].pc = "saving" /\ calls[d].pc = "saving"
            /\ calls[c].url # calls[d].url)
           => calls[c].fileName # calls[d].fileName

\* a text holds no line break and neither starts nor ends with whitespace
OnOneLineAndTrimmed(s) ==
    /\ \A i \in 1..Len(s) : s[i] \notin LineBreaks
    /\ s # <<>> => s[1] \notin Whitespace /\ s[Len(s)] \notin Whitespace

\* every backslash of a text is the first of two, or stands before a double
\* quote, and every double quote has such a backslash before it
RECURSIVE WellEscaped(_)
WellEscaped(s) ==
    IF s = <<>> THEN TRUE
    ELSE IF Head(s) = "\\"
    THEN /\ Len(s) >= 2 /\ s[2] \in {"\\", "\""}
         /\ WellEscaped(SubSeq(s, 3, Len(s)))
    ELSE Head(s) # "\"" /\ WellEscaped(Tail(s))

\* the text an escaped text stands for
RECURSIVE Unescaped(_)
Unescaped(s) ==
    IF s = <<>> THEN <<>>
    ELSE IF Head(s) = "\\" /\ Len(s) >= 2
    THEN <<s[2]>> \o Unescaped(SubSeq(s, 3, Len(s)))
    ELSE <<Head(s)>> \o Unescaped(Tail(s))

\* the text extracted from a document, or the URL standing in for a title,
\* without its line breaks and the whitespace around it
Plain(text) ==
    LET oneLine == SelectSeq(text, LAMBDA t : t \notin LineBreaks) IN
    trim(oneLine)

\* C29: after parse the title, and the description when there is one, hold
\* no CR or LF and no whitespace at either end, and are the extracted text
\* with each backslash doubled and each double quote behind one backslash.
TitleAndDescriptionNormalized ==
    \A c \in DefaultParses :
        LET html == calls[c].response.text
            value == calls[c].value IN
        /\ value.title # undefined
        /\ OnOneLineAndTrimmed(value.title)
        /\ WellEscaped(value.title)
        /\ \E text \in {html.ogTitle, html.twTitle, html.title, html.h1,
                        calls[c].url} :
              text # undefined /\ Unescaped(value.title) = Plain(text)
        /\ value.description # undefined
              => /\ OnOneLineAndTrimmed(value.description)
                 /\ WellEscaped(value.description)
                 /\ \E text \in {html.ogDescription, html.twDescription,
                                 html.description} :
                       /\ text # undefined
                       /\ Unescaped(value.description) = Plain(text)

\* C30: a record getMetadata(u) resolves to has u as its url and the host
\* name of u as its host, whether it was fetched or came from the cache,
\* also when the cache holds a record stored under another spelling of u.
ResolvedRecordIsOfRequestedUrl ==
    \A c \in CallIds :
        (calls[c].kind = "getMetadata" /\ calls[c].status = "resolved")
            => /\ calls[c].value.url = calls[c].url
               /\ calls[c].value.host = hostname(calls[c].url)

====
